---- MODULE Spec2Model ----
(***************************************************************************)
(* Model of the helpers of custom-functions:                               *)
(*   mailing.py   imapSearch, imapReceive, mailRead                        *)
(*   scraping.py  waitClickable                                            *)
(* Every helper is a synchronous call.  A call is made from the idle       *)
(* state, runs to completion (pc = "done") and Return hands the result to  *)
(* the caller.  What outlives a call is the IMAP session's selected        *)
(* mailbox, the server's mailboxes and the filesystem.                     *)
(*                                                                         *)
(* Python values are tagged records: None, bytes (sequences of byte        *)
(* values), str (sequences of characters), int, bool.                      *)
(***************************************************************************)
EXTENDS Integers, Sequences, FiniteSets, TLC

VARIABLES
    sizes,      \* server: mailbox name -> number of messages (identifiers 1..M)
    selected,   \* session: name of the selected mailbox, "" when none is selected
    fs,         \* filesystem below the download directory: [dirs, files]
    pc,         \* "idle", "polling" (inside WebDriverWait.until) or "done"
    op,         \* the helper that was called
    args,       \* its arguments
    log,        \* the commands it issued / the polls it made, in order
    ret,        \* its return value
    exc,        \* the exception that left it, "" when it returned
    clock       \* waitClickable: poll intervals slept since the call

vars == <<sizes, selected, fs, pc, op, args, log, ret, exc, clock>>

---------------------------------------------------------------------------
(* Bounds *)
MaxM == 3          \* messages per mailbox
MaxList == 3       \* length of an explicit identifier list
MaxRaw == 4        \* bytes of a raw search response
MaxParts == 2      \* parts met by a message's walk()
MaxTimeout == 3    \* timeout of a wait, in poll intervals

---------------------------------------------------------------------------
(* Python values *)
NoneVal == [t |-> "None"]
Bytes(s) == [t |-> "bytes", v |-> s]
Str(s) == [t |-> "str", v |-> s]
IntV(i) == [t |-> "int", v |-> i]
BoolV(b) == [t |-> "bool", v |-> b]

\* Truth value of a Python object, as `not x` / `if x` take it.
Truthy(x) ==
    CASE x.t = "None" -> FALSE
      [] x.t = "bytes" -> x.v # <<>>
      [] x.t = "str" -> x.v # <<>>
      [] x.t = "int" -> x.v # 0
      [] x.t = "bool" -> x.v

\* bool is a subclass of int: False is 0 and True is 1 in comparisons,
\* arithmetic and range().
AsInt(x) == IF x.t = "bool" THEN (IF x.v THEN 1 ELSE 0) ELSE x.v

SPACE == 32
ZERO == 48
IsSpace(b) == b \in {9, 10, 11, 12, 13, SPACE}

\* int(b"123"): base-10 value of a run of ASCII digits.
RECURSIVE DigitsValue(_)
DigitsValue(s) ==
    IF s = <<>> THEN 0
    ELSE 10 * DigitsValue(SubSeq(s, 1, Len(s) - 1)) + (s[Len(s)] - ZERO)

\* int(x) for the values imapReceive hands it: bytes of digits, or an int.
PyInt(x) == IF x.t = "bytes" THEN DigitsValue(x.v) ELSE AsInt(x)

\* bytes.split(): the maximal runs of non-whitespace bytes, in order.
RECURSIVE SplitFrom(_, _, _)
SplitFrom(s, i, cur) ==
    IF i > Len(s) THEN (IF cur = <<>> THEN <<>> ELSE <<cur>>)
    ELSE IF IsSpace(s[i])
         THEN (IF cur = <<>> THEN <<>> ELSE <<cur>>) \o SplitFrom(s, i + 1, <<>>)
         ELSE SplitFrom(s, i + 1, Append(cur, s[i]))

Split(s) == SplitFrom(s, 1, <<>>)

\* str(i).encode(): the decimal digits of a non-negative integer.
RECURSIVE Digits(_)
Digits(i) ==
    IF i < 10 THEN <<ZERO + i>>
    ELSE Append(Digits(i \div 10), ZERO + (i % 10))

\* range(a, b, -1) as a list: a, a-1, ..., b+1.
RECURSIVE RangeDown(_, _)
RangeDown(a, b) == IF a > b THEN <<a>> \o RangeDown(a - 1, b) ELSE <<>>

---------------------------------------------------------------------------
(* The IMAP server and session (imaplib), as the helpers see them *)
Mailboxes == {"INBOX", "Sent"}
NoMailbox == "None"            \* the mailbox argument left None
MailboxArgs == Mailboxes \cup {NoMailbox}

NoLog == <<>>
CmdSelect(box) == [cmd |-> "select", box |-> box, query |-> "", id |-> 0]
CmdSearch(q) == [cmd |-> "search", box |-> "", query |-> q, id |-> 0]
CmdFetch(i) == [cmd |-> "fetch", box |-> "", query |-> "", id |-> i]

\* imap.select(mailbox)[1]: the EXISTS count the server reported, [None] when
\* it reported none.
SelectData(m, reports) == IF reports THEN <<Bytes(Digits(m))>> ELSE <<NoneVal>>

\* imap.search(None, "ALL")[1][0] on a mailbox of m messages: b"1 2 ... m".
RECURSIVE AllIds(_)
AllIds(m) ==
    IF m = 0 THEN <<>>
    ELSE IF m = 1 THEN Digits(1)
    ELSE AllIds(m - 1) \o <<SPACE>> \o Digits(m)

\* The parsed message of identifier i of a mailbox (message_from_bytes).
Message(box, i) == [box |-> box, id |-> i]

---------------------------------------------------------------------------
(* imapSearch *)

\* Mutant of SearchResult: the first token is dropped (split()[1:]).
SearchResultSkipFirst(raw) ==
    IF ~Truthy(raw) THEN <<>>
    ELSE LET toks == Split(raw.v)
         IN [k \in 1..(IF toks = <<>> THEN 0 ELSE Len(toks) - 1) |->
                DigitsValue(toks[k + 1])]

\* The list imapSearch builds from the raw response imap.search(...)[1][0].
SearchResult(raw) ==
    IF ~Truthy(raw) THEN <<>>
    ELSE LET toks == Split(raw.v)
         IN [k \in 1..Len(toks) |-> DigitsValue(toks[k])]

\* The commands imapSearch issues, in order.
SearchCommands(mailbox, query) ==
    (IF mailbox # NoMailbox THEN <<CmdSelect(mailbox)>> ELSE <<>>)
        \o <<CmdSearch(query)>>

\* One run of imapSearch on a session whose selected mailbox is sel; raw is
\* the server's answer to the search.  imaplib raises its error when a search
\* is issued with no mailbox selected.
ImapSearchRun(sel, mailbox, query, raw) ==
    LET sel1 == IF mailbox # NoMailbox THEN mailbox ELSE sel
    IN IF sel1 = ""
       THEN [ret |-> <<>>, exc |-> "imaplib.error",
             log |-> SearchCommands(mailbox, query), selected |-> sel1]
       ELSE [ret |-> SearchResult(raw), exc |-> "",
             log |-> SearchCommands(mailbox, query), selected |-> sel1]

---------------------------------------------------------------------------
(* imapReceive *)

\* msgN after line 59 / line 61: the data of the select response, or the list
\* of identifiers imapSearch returned.
CountSource(srv, sel, mailbox, reports) ==
    IF mailbox # NoMailbox
    THEN [ret |-> SelectData(srv[mailbox], reports), exc |-> "",
          log |-> <<CmdSelect(mailbox)>>, selected |-> mailbox]
    ELSE LET s == ImapSearchRun(sel, NoMailbox, "ALL",
                                Bytes(IF sel = "" THEN <<>> ELSE AllIds(srv[sel])))
         IN [s EXCEPT !.ret = [k \in 1..Len(s.ret) |-> IntV(s.ret[k])]]

\* msgN as rebound by the assignment expression of line 62,
\*   msgN := int(msgN[0]) == 0
\* which binds the result of the comparison.
Walrus(first) == BoolV(PyInt(first) = 0)

\* Mutant of Iterate: an explicit list is walked most-recent-first like a
\* count, that is from its end.
IterateListReversed(n, msgN) ==
    IF n.t = "int"
    THEN IF n.v = 0 \/ n.v > AsInt(msgN)
         THEN RangeDown(AsInt(msgN), 0)
         ELSE RangeDown(AsInt(msgN), AsInt(msgN) - n.v)
    ELSE [k \in 1..Len(n.v) |-> n.v[Len(n.v) - k + 1]]

\* iterate, lines 64-70: n is IntV(k) or [t |-> "list", v |-> ids].
Iterate(n, msgN) ==
    IF n.t = "int"
    THEN IF n.v = 0 \/ n.v > AsInt(msgN)
         THEN RangeDown(AsInt(msgN), 0)
         ELSE RangeDown(AsInt(msgN), AsInt(msgN) - n.v)
    ELSE n.v

\* imap.fetch(str(i), "(RFC822)")[1] on a mailbox of m messages.
FetchData(box, m, i) ==
    IF i \in 1..m
    THEN <<[t |-> "tuple", v |-> Message(box, i)], Bytes(<<41>>)>>
    ELSE <<NoneVal>>

\* Lines 74-76: the messages parsed from the tuples of one fetch response.
RECURSIVE ParsedOf(_)
ParsedOf(data) ==
    IF data = <<>> THEN <<>>
    ELSE (IF Head(data).t = "tuple" THEN <<Head(data).v>> ELSE <<>>)
             \o ParsedOf(Tail(data))

\* Lines 71-77: the fetch loop.  A server that is strict answers a fetch of an
\* identifier the mailbox does not hold with BAD, which imaplib raises.
RECURSIVE FetchLoop(_, _, _, _, _)
FetchLoop(box, m, ids, strict, acc) ==
    IF ids = <<>> THEN acc
    ELSE LET i == Head(ids)
             logged == [acc EXCEPT !.log = Append(@, CmdFetch(i))]
         IN IF strict /\ i \notin 1..m
            THEN [logged EXCEPT !.exc = "imaplib.error"]
            ELSE FetchLoop(box, m, Tail(ids), strict,
                     [logged EXCEPT !.ret = @ \o ParsedOf(FetchData(box, m, i))])

\* One run of imapReceive.
ImapReceiveRun(srv, sel, mailbox, n, reports, strict) ==
    LET c == CountSource(srv, sel, mailbox, reports)
        msgN == c.ret
        empty == [c EXCEPT !.ret = <<>>]
    IN IF c.exc # "" THEN empty
       ELSE IF Len(msgN) = 0 THEN [empty EXCEPT !.exc = "IndexError"]
       ELSE IF ~Truthy(msgN[1]) THEN empty
       ELSE IF Walrus(msgN[1]).v THEN empty
       ELSE FetchLoop(c.selected, srv[c.selected],
                      Iterate(n, Walrus(msgN[1])), strict, empty)

---------------------------------------------------------------------------
(* Arguments drawn by the calls *)
RECURSIVE SeqsUpTo(_, _)
SeqsUpTo(S, k) ==
    IF k = 0 THEN {<<>>}
    ELSE LET shorter == SeqsUpTo(S, k - 1)
         IN shorter \cup {Append(s, x) : s \in shorter, x \in S}

Ids == 1..(MaxM + 1)
CountArgs == {IntV(k) : k \in 0..(MaxM + 1)}
ListArgs == {[t |-> "list", v |-> l] : l \in SeqsUpTo(Ids, MaxList)}
Queries == {"ALL", "UNSEEN"}
RawBytes == {SPACE, ZERO, ZERO + 1, ZERO + 2}
RawResponses == {NoneVal} \cup {Bytes(s) : s \in SeqsUpTo(RawBytes, MaxRaw)}

NoArgs == [none |-> TRUE]
NoFs == [dirs |-> {}, files |-> {}]

---------------------------------------------------------------------------
(* Initial state: a session just connected (imapConnect), nothing selected,
   empty mailboxes, an empty download directory. *)
Init ==
    /\ sizes = [b \in Mailboxes |-> 0]
    /\ selected = ""
    /\ fs = NoFs
    /\ pc = "idle"
    /\ op = "none"
    /\ args = NoArgs
    /\ log = NoLog
    /\ ret = <<>>
    /\ exc = ""
    /\ clock = 0

\* The caller takes the result; the session, server and files stay.
Return ==
    /\ pc = "done"
    /\ pc' = "idle"
    /\ op' = "none"
    /\ args' = NoArgs
    /\ log' = NoLog
    /\ ret' = <<>>
    /\ exc' = ""
    /\ clock' = 0
    /\ UNCHANGED <<sizes, selected, fs>>

\* Environment: a message arrives in a mailbox.
Deliver(box) ==
    /\ pc = "idle"
    /\ sizes[box] < MaxM
    /\ sizes' = [sizes EXCEPT ![box] = @ + 1]
    /\ UNCHANGED <<selected, fs, pc, op, args, log, ret, exc, clock>>

\* imapSearch(imap, mailbox, query) with the server answering raw.
ImapSearch(mailbox, query, raw) ==
    /\ pc = "idle"
    /\ \E r \in {ImapSearchRun(selected, mailbox, query, raw)} :
          /\ ret' = r.ret
          /\ exc' = r.exc
          /\ log' = r.log
          /\ selected' = r.selected
    /\ pc' = "done"
    /\ op' = "imapSearch"
    /\ args' = [mailbox |-> mailbox, query |-> query, raw |-> raw]
    /\ UNCHANGED <<sizes, fs, clock>>

\* imapReceive(imap, mailbox, n).  A server reports the count of every
\* non-empty mailbox it selects; for an empty one it may report 0 or nothing.
ImapReceive(mailbox, n) ==
    /\ pc = "idle"
    /\ \E reports \in BOOLEAN, strict \in BOOLEAN :
          /\ (mailbox # NoMailbox /\ sizes[mailbox] > 0) => reports
          /\ \E r \in {ImapReceiveRun(sizes, selected, mailbox, n, reports, strict)} :
                /\ ret' = r.ret
                /\ exc' = r.exc
                /\ log' = r.log
                /\ selected' = r.selected
    /\ pc' = "done"
    /\ op' = "imapReceive"
    /\ args' = [mailbox |-> mailbox, n |-> n]
    /\ UNCHANGED <<sizes, fs, clock>>

\* A call is made by a caller that is not inside another call.
Idle == pc = "idle"

\* The caller searches: any mailbox argument, any criteria, any answer.
ImapSearchCall ==
    Idle /\ \E mailbox \in MailboxArgs, query \in Queries, raw \in RawResponses :
               ImapSearch(mailbox, query, raw)

NextSearch == ImapSearchCall \/ Return

SpecSearch == Init /\ [][NextSearch]_vars

\* The caller receives by count.
ImapReceiveCountCall ==
    Idle /\ \E mailbox \in MailboxArgs, n \in CountArgs : ImapReceive(mailbox, n)

\* The caller receives by explicit list.
ImapReceiveListCall ==
    Idle /\ \E mailbox \in MailboxArgs, n \in ListArgs : ImapReceive(mailbox, n)

NextReceive ==
    \/ \E box \in Mailboxes : Deliver(box)
    \/ ImapReceiveCountCall
    \/ ImapReceiveListCall
    \/ Return

SpecReceive == Init /\ [][NextReceive]_vars

---------------------------------------------------------------------------
(* Properties of imapReceive (SpecReceive) *)

\* The identifiers fetched by a call, in the order of the fetches.
FetchIds(l) ==
    LET f == SelectSeq(l, LAMBDA c : c.cmd = "fetch")
    IN [k \in 1..Len(f) |-> f[k].id]

\* The messages of the identifiers ids of the selected mailbox, in order.
MessagesOf(ids) == [k \in 1..Len(ids) |-> Message(selected, ids[k])]

\* imapReceive has completed on a session that has a mailbox to work on
\* (named in the call, or selected before it).
ReceiveDone == pc = "done" /\ op = "imapReceive" /\ selected # ""

\* C1: with an integer n that is 0 or at least M, on a non-empty mailbox of M
\* messages, imapReceive returns the M messages M, M-1, ..., 1 in that order,
\* with and without a mailbox name.
C1_AllMostRecentFirst ==
    (/\ ReceiveDone
     /\ args.n.t = "int"
     /\ sizes[selected] > 0
     /\ (args.n.v = 0 \/ args.n.v >= sizes[selected]))
    => (exc = "" /\ ret = MessagesOf(RangeDown(sizes[selected], 0)))

\* C2: with an integer n, 0 < n < M, imapReceive returns the n messages
\* M, M-1, ..., M-n+1 in that order.
C2_NMostRecentFirst ==
    (/\ ReceiveDone
     /\ args.n.t = "int"
     /\ 0 < args.n.v
     /\ args.n.v < sizes[selected])
    => (exc = ""
        /\ ret = MessagesOf(RangeDown(sizes[selected], sizes[selected] - args.n.v)))

\* C3 as stated: with an explicit list n, whatever the mailbox's message
\* count, imapReceive fetches exactly the listed identifiers in list order and
\* returns one message per listed identifier in that order.
C3_ListAnyCount ==
    (ReceiveDone /\ args.n.t = "list")
    => (exc = "" /\ FetchIds(log) = args.n.v /\ ret = MessagesOf(args.n.v))

\* C3 as amended: with an explicit list n of identifiers the mailbox holds, on
\* a non-empty mailbox, imapReceive fetches exactly the listed identifiers in
\* list order and returns one message per listed identifier in that order,
\* whatever the length of the list against the count.
C3_ListOnNonEmpty ==
    (/\ ReceiveDone
     /\ args.n.t = "list"
     /\ sizes[selected] > 0
     /\ \A k \in 1..Len(args.n.v) : args.n.v[k] \in 1..sizes[selected])
    => (exc = "" /\ FetchIds(log) = args.n.v /\ ret = MessagesOf(args.n.v))

\* A list of three identifiers out of chronological order, longer than the
\* count of the mailbox, has been received.
C3_Witness ==
    /\ ReceiveDone
    /\ args.n.t = "list"
    /\ sizes[selected] = 2
    /\ args.n.v = <<2, 1, 2>>
    /\ ret = <<Message(selected, 2), Message(selected, 1), Message(selected, 2)>>

\* C4: on an empty mailbox imapReceive returns the empty list, raises nothing
\* and fetches nothing, with and without a mailbox name.
C4_EmptyMailbox ==
    (ReceiveDone /\ sizes[selected] = 0)
    => (exc = "" /\ ret = <<>> /\ FetchIds(log) = <<>>)

---------------------------------------------------------------------------
(* Properties of imapSearch (SpecSearch) *)

\* The tokens of a raw response, by position: a token starts at a
\* non-whitespace byte that is first or follows whitespace, and runs to the
\* last byte before the next whitespace.
TokenStarts(s) ==
    {i \in 1..Len(s) : ~IsSpace(s[i]) /\ (i = 1 \/ IsSpace(s[i - 1]))}

TokenEnd(s, i) ==
    CHOOSE j \in i..Len(s) :
        /\ \A k \in i..j : ~IsSpace(s[k])
        /\ (j = Len(s) \/ IsSpace(s[j + 1]))

KthStart(s, k) ==
    CHOOSE i \in TokenStarts(s) :
        Cardinality({j \in TokenStarts(s) : j < i}) = k - 1

RECURSIVE Pow10(_)
Pow10(e) == IF e = 0 THEN 1 ELSE 10 * Pow10(e - 1)

RECURSIVE SumDigits(_, _, _)
SumDigits(s, i, j) ==
    IF i > j THEN 0
    ELSE (s[i] - ZERO) * Pow10(j - i) + SumDigits(s, i + 1, j)

TokenValue(s, k) == SumDigits(s, KthStart(s, k), TokenEnd(s, KthStart(s, k)))

\* C9: imapSearch selects the named mailbox first iff one is named, then
\* issues exactly one search with the given criteria; it returns the empty
\* list for an empty raw response and otherwise the integers of the
\* whitespace-separated tokens, in order, one per token.
C9_SearchTokens ==
    (pc = "done" /\ op = "imapSearch")
    => /\ Len(SelectSeq(log, LAMBDA c : c.cmd = "search")) = 1
       /\ log[Len(log)] = CmdSearch(args.query)
       /\ (args.mailbox # NoMailbox) => (Len(log) = 2 /\ log[1] = CmdSelect(args.mailbox))
       /\ (args.mailbox = NoMailbox) => Len(log) = 1
       /\ exc = "" =>
            IF args.raw = NoneVal \/ args.raw.v = <<>>
            THEN ret = <<>>
            ELSE /\ Len(ret) = Cardinality(TokenStarts(args.raw.v))
                 /\ \A k \in 1..Len(ret) : ret[k] = TokenValue(args.raw.v, k)

\* A search in a named mailbox has returned two identifiers, the first of
\* several digits.
C9_Witness ==
    /\ pc = "done"
    /\ op = "imapSearch"
    /\ args.mailbox = "INBOX"
    /\ exc = ""
    /\ args.raw = Bytes(<<ZERO + 1, ZERO + 2, SPACE, ZERO + 2>>)
    /\ ret = <<12, 2>>

---------------------------------------------------------------------------
(* Text: a character is its code point, a str is a sequence of code points
   (tagged "str"), bytes are a sequence of byte values (tagged "bytes") *)

\* str.encode(): the text of the model is ASCII, one byte per character.
Encode(text) == [k \in 1..Len(text) |-> text[k] % 256]

\* bytes.decode(encoding) of bytes that do decode: below 128 a byte is the
\* code point of its character.
Decode(bytes) == [k \in 1..Len(bytes) |-> bytes[k]]

\* c.isalnum() in the ASCII range: digits and letters.
IsAlnum(c) == c \in (48..57) \cup (65..90) \cup (97..122)

\* sub in s
Contains(sub, s) ==
    \E i \in 1..(Len(s) - Len(sub) + 1) : SubSeq(s, i, i + Len(sub) - 1) = sub

ATTACHMENT == <<97, 116, 116, 97, 99, 104, 109, 101, 110, 116>>  \* "attachment"
INLINE == <<105, 110, 108, 105, 110, 101>>                       \* "inline"
NONE_STR == <<78, 111, 110, 101>>                                \* "None"
UNDERSCORE == 95                                                 \* "_"

---------------------------------------------------------------------------
(* Messages (email.message.Message), as mailRead sees them *)

\* A header value is a sequence of segments: runs of plain text (charset
\* "") and encoded words (=?charset?..?=) holding text.
Seg(text, charset) == [text |-> text, charset |-> charset]

\* email.header.decode_header: a value without encoded words comes back as one
\* (str, None) pair; otherwise every segment comes back as (bytes, charset),
\* the charset of a plain run being None.
DecodeHeader(h) ==
    IF \A k \in 1..Len(h) : h[k].charset = ""
    THEN <<[content |-> Str(h[1].text), encoding |-> NoneVal]>>
    ELSE [k \in 1..Len(h) |->
            [content |-> Bytes(Encode(h[k].text)),
             encoding |-> IF h[k].charset = "" THEN NoneVal
                          ELSE [t |-> "str", v |-> h[k].charset]]]

\* Lines 94-98: what mailRead stores for a header.
HeaderContent(h) ==
    LET first == DecodeHeader(h)[1]
    IN IF first.content.t = "bytes" /\ first.encoding # NoneVal
       THEN Str(Decode(first.content.v))
       ELSE first.content

\* Line 109: part.get_payload(decode=True).decode().  A container part has no
\* payload (None has no decode); bytes outside UTF-8 do not decode.
DecodeBody(payload) ==
    IF payload = NoneVal THEN [ok |-> FALSE, body |-> <<>>]
    ELSE IF \E k \in 1..Len(payload.v) : payload.v[k] > 127
         THEN [ok |-> FALSE, body |-> <<>>]
         ELSE [ok |-> TRUE, body |-> Decode(payload.v)]

\* Line 106: str(part.get("Content-Disposition")).
DispositionStr(part) == IF part.disp = NoneVal THEN NONE_STR ELSE part.disp.v

\* Lines 126-127: the folder name made of the stored Subject.
Sanitize(text) ==
    [k \in 1..Len(text) |-> IF IsAlnum(text[k]) THEN text[k] ELSE UNDERSCORE]

\* Lines 128-134 on the filesystem.
FolderPath(download, folder) == [root |-> download, folder |-> folder]
Mkdir(f, path) == [f EXCEPT !.dirs = @ \cup {path}]
WriteFile(f, path, name, data) ==
    [f EXCEPT !.files =
        {x \in @ : ~(x.dir = path /\ x.name = name)}
            \cup {[dir |-> path, name |-> name, data |-> data]}]

\* Lines 113-121: the accumulators after one part.
Accumulate(acc, part) ==
    LET dec == DecodeBody(part.payload)
    IN IF ~dec.ok THEN acc
       ELSE IF part.ctype = "text/plain"
               /\ ~Contains(ATTACHMENT, DispositionStr(part))
            THEN [acc EXCEPT !.plain = @ \o dec.body]
       ELSE IF part.ctype = "text/html"
            THEN [acc EXCEPT !.html = @ \o dec.body]
       ELSE acc

\* Lines 122-134: the attachment of one part.  Iterating over a bytes Subject
\* yields ints, which have no isalnum; write(None) is a TypeError raised after
\* open() has created the file.
Extract(acc, part, subject, download) ==
    IF ~(Contains(ATTACHMENT, DispositionStr(part)) /\ download # "") THEN acc
    ELSE IF part.filename = "" THEN acc
    ELSE IF subject.t = "bytes" /\ subject.v # <<>>
         THEN [acc EXCEPT !.exc = "AttributeError"]
    ELSE LET path == FolderPath(download, Sanitize(subject.v))
             made == IF path \in acc.fs.dirs THEN acc.fs ELSE Mkdir(acc.fs, path)
             opened == WriteFile(made, path, part.filename, <<>>)
         IN IF part.payload = NoneVal
            THEN [acc EXCEPT !.fs = opened, !.exc = "TypeError"]
            ELSE [acc EXCEPT
                    !.fs = WriteFile(opened, path, part.filename, part.payload.v)]

\* Lines 103-134: the loop over mail.walk().
RECURSIVE Walk(_, _, _, _)
Walk(parts, acc, subject, download) ==
    IF parts = <<>> \/ acc.exc # "" THEN acc
    ELSE Walk(Tail(parts),
              Extract(Accumulate(acc, Head(parts)), Head(parts), subject, download),
              subject, download)

ReadKeys == {"Subject", "From", "To", "text/plain", "text/html"}

\* One run of mailRead on the filesystem f.
MailReadRun(f, mail, download) ==
    LET subject == HeaderContent(mail.Subject)
        done == Walk(mail.parts,
                     [plain |-> <<>>, html |-> <<>>, fs |-> f, exc |-> ""],
                     subject, download)
    IN [fs |-> done.fs,
        exc |-> done.exc,
        ret |-> IF done.exc # "" THEN <<>>
                ELSE [k \in ReadKeys |->
                        CASE k = "Subject" -> subject
                          [] k = "From" -> HeaderContent(mail.From)
                          [] k = "To" -> HeaderContent(mail.To)
                          [] k = "text/plain" -> Str(done.plain)
                          [] k = "text/html" -> Str(done.html)]]

---------------------------------------------------------------------------
(* Messages and directories drawn by the calls *)
Q1_REPORT == <<81, 49, 32, 82, 101, 112, 111, 114, 116, 33>>   \* "Q1 Report!"
HI == <<72, 105>>                                              \* "Hi"
RE == <<82, 101, 58, 32>>                                      \* "Re: "

Subjects ==
    { <<Seg(Q1_REPORT, "")>>,
      <<Seg(HI, "utf-8")>>,
      <<Seg(RE, ""), Seg(HI, "utf-8")>>,
      <<Seg(HI, "utf-8"), Seg(Q1_REPORT, "")>> }
Froms == { <<Seg(HI, "")>>, <<Seg(RE, ""), Seg(HI, "utf-8")>> }
Tos == { <<Seg(HI, "")>> }

Dispositions == {NoneVal, Str(INLINE), Str(ATTACHMENT)}
Payloads == {Bytes(Encode(HI)), Bytes(<<255>>)}
Filenames == {"", "report.pdf"}

\* Leaf parts carry bytes; a container (here message/rfc822, an attached
\* message) carries none.
Parts ==
    [ctype : {"text/plain", "text/html", "application/pdf"},
     disp : Dispositions, payload : Payloads, filename : Filenames]
    \cup [ctype : {"message/rfc822"},
          disp : Dispositions, payload : {NoneVal}, filename : Filenames]

\* walk() yields a container before the parts it contains, so a container is
\* never the last part of a walk.
Walks ==
    {w \in SeqsUpTo(Parts, MaxParts) :
        w # <<>> /\ w[Len(w)].ctype # "message/rfc822"}

Mails == [Subject : Subjects, From : Froms, To : Tos, parts : Walks]

Downloads == {"", "dl"}

\* mailRead(mail, download).  shout only prints and is left out.
MailRead(mail, download) ==
    /\ pc = "idle"
    /\ \E r \in {MailReadRun(fs, mail, download)} :
          /\ fs' = r.fs
          /\ ret' = r.ret
          /\ exc' = r.exc
    /\ pc' = "done"
    /\ op' = "mailRead"
    /\ args' = [mail |-> mail, download |-> download]
    /\ log' = NoLog
    /\ UNCHANGED <<sizes, selected, clock>>

\* The caller reads a mail.
MailReadCall ==
    Idle /\ \E mail \in Mails, download \in Downloads : MailRead(mail, download)

NextMail == MailReadCall \/ Return

SpecMail == Init /\ [][NextMail]_vars

---------------------------------------------------------------------------
(* Properties of mailRead (SpecMail) *)

MailReadDone == pc = "done" /\ op = "mailRead"

\* The text of a header value: the text of its segments, in order.
RECURSIVE HeaderText(_)
HeaderText(h) == IF h = <<>> THEN <<>> ELSE Head(h).text \o HeaderText(Tail(h))

IsAttachment(part) == Contains(ATTACHMENT, DispositionStr(part))
Decodable(part) == part.payload # NoneVal /\ \A k \in 1..Len(part.payload.v) : part.payload.v[k] < 128

\* Whether a part counts for the body kept under a key.
Counts(part, key) ==
    IF key = "text/plain"
    THEN part.ctype = "text/plain" /\ ~IsAttachment(part)
    ELSE part.ctype = "text/html"

\* The text of the parts that count for a key, in traversal order.
RECURSIVE BodiesOf(_, _)
BodiesOf(parts, key) ==
    IF parts = <<>> THEN <<>>
    ELSE (IF Counts(Head(parts), key) /\ Decodable(Head(parts))
          THEN Head(parts).payload.v ELSE <<>>)
             \o BodiesOf(Tail(parts), key)

\* The parts mailRead is to save: attachment disposition and a filename.
Saved(parts) == {k \in 1..Len(parts) : IsAttachment(parts[k]) /\ parts[k].filename # ""}

\* C5: for every message mailRead returns a mapping of exactly the five keys;
\* text/plain is the concatenation, in traversal order, of the decoded bodies
\* of the text/plain parts that are no attachment, text/html that of the
\* text/html parts whatever their disposition; other parts change neither.
C5_Accumulators ==
    MailReadDone
    => /\ exc = ""
       /\ DOMAIN ret = ReadKeys
       /\ ret["text/plain"] = Str(BodiesOf(args.mail.parts, "text/plain"))
       /\ ret["text/html"] = Str(BodiesOf(args.mail.parts, "text/html"))

\* C6: when a part's payload does not decode as text (a container part with
\* no payload included), mailRead does not raise, that part adds nothing to
\* the accumulators, the following parts are still read, and the part is still
\* saved when it is an attachment with a filename and a download directory
\* was given.
C6_UndecodablePart ==
    (MailReadDone /\ \E k \in 1..Len(args.mail.parts) : ~Decodable(args.mail.parts[k]))
    => /\ exc = ""
       /\ ret["text/plain"] = Str(BodiesOf(args.mail.parts, "text/plain"))
       /\ ret["text/html"] = Str(BodiesOf(args.mail.parts, "text/html"))
       /\ \A k \in Saved(args.mail.parts) :
            (~Decodable(args.mail.parts[k]) /\ args.download # "")
            => \E f \in fs.files :
                  /\ f.dir = FolderPath(args.download, Sanitize(ret["Subject"].v))
                  /\ f.name = args.mail.parts[k].filename

\* The files a call is to leave below the download directory: what was there,
\* and for every saved part the file of its filename in the folder of the
\* subject, holding the payload of the last part saved under that name.
FilesAfter(before, mail, download) ==
    LET path == FolderPath(download, Sanitize(HeaderText(mail.Subject)))
        names == {mail.parts[k].filename : k \in Saved(mail.parts)}
        last(name) == CHOOSE k \in Saved(mail.parts) :
                         /\ mail.parts[k].filename = name
                         /\ \A j \in Saved(mail.parts) :
                              mail.parts[j].filename = name => j <= k
    IN {x \in before : ~(x.dir = path /\ x.name \in names)}
         \cup {[dir |-> path, name |-> name,
                data |-> mail.parts[last(name)].payload.v] : name \in names}

\* C7: mailRead creates a directory or writes a file only for an attachment
\* part with a filename and only with a download directory; then the folder
\* <download>/<S>, S the decoded Subject with every non-alphanumeric character
\* replaced by "_", exists (created only if absent) and <download>/<S>/<name>
\* holds the part's payload bytes, a later part of the same name overwriting
\* an earlier one; otherwise the filesystem is unchanged.
C7_AttachmentFiles ==
    [][(pc = "idle" /\ op' = "mailRead")
       => IF args'.download = "" \/ Saved(args'.mail.parts) = {}
          THEN fs' = fs
          ELSE /\ exc' = ""
               /\ fs'.dirs = fs.dirs \cup
                    {FolderPath(args'.download,
                                Sanitize(HeaderText(args'.mail.Subject)))}
               /\ fs'.files = FilesAfter(fs.files, args'.mail, args'.download)]_vars

\* C8: the value stored for Subject, From and To is the header's decoded
\* content as text, also for a value of several segments, so every value of
\* the mapping is a str.
C8_HeadersDecoded ==
    (MailReadDone /\ exc = "")
    => /\ \A h \in {"Subject", "From", "To"} : ret[h] = Str(HeaderText(args.mail[h]))
       /\ \A k \in ReadKeys : ret[k].t = "str"

---------------------------------------------------------------------------
(* waitClickable *)

\* What WebDriverWait(driver, timeout).until(...) hands back: a value it
\* returns or an exception it raises.
UntilReturns(e) == [kind |-> "return", value |-> e, name |-> ""]
UntilRaises(x) == [kind |-> "raise", value |-> NoneVal, name |-> x]

\* Mutant of WaitClickableResult: a bare except, every exception gives None.
WaitClickableCatchAll(u) ==
    IF u.kind = "return" THEN [ret |-> u.value, exc |-> ""]
    ELSE [ret |-> NoneVal, exc |-> ""]

\* Lines 21-24: the try/except around until.
WaitClickableResult(u) ==
    IF u.kind = "return" THEN [ret |-> u.value, exc |-> ""]
    ELSE IF u.name = "TimeoutException" THEN [ret |-> NoneVal, exc |-> ""]
    ELSE [ret |-> NoneVal, exc |-> u.name]

XPaths == {"//a", "//button["}
Elements == {[t |-> "element", id |-> i] : i \in 1..2}
DriverErrors == {"InvalidSelectorException", "WebDriverException"}
Poll(kind, element, name) == [kind |-> kind, element |-> element, name |-> name]

\* waitClickable(driver, xpath, timeout) is entered; timeout counts poll
\* intervals.
WaitCall(xpath, timeout) ==
    /\ pc = "idle"
    /\ pc' = "polling"
    /\ op' = "waitClickable"
    /\ args' = [xpath |-> xpath, timeout |-> timeout]
    /\ log' = NoLog
    /\ clock' = 0
    /\ UNCHANGED <<sizes, selected, fs, ret, exc>>

\* until has left with u: waitClickable completes.
WaitLeaves(u) ==
    \E r \in {WaitClickableResult(u)} :
        /\ pc' = "done"
        /\ ret' = r.ret
        /\ exc' = r.exc

\* A poll finds the element clickable: until returns it.
WaitPollFound(e) ==
    /\ pc = "polling"
    /\ log' = Append(log, Poll("clickable", e, ""))
    /\ WaitLeaves(UntilReturns(e))
    /\ UNCHANGED <<sizes, selected, fs, op, args, clock>>

\* A poll finds no element (NoSuchElementException, which until ignores) or
\* one that is not clickable: until sleeps one interval, and raises
\* TimeoutException once the time is past the timeout.
WaitPollNotYet(kind) ==
    /\ pc = "polling"
    /\ log' = Append(log, Poll(kind, NoneVal, ""))
    /\ clock' = clock + 1
    /\ IF clock + 1 > args.timeout
       THEN WaitLeaves(UntilRaises("TimeoutException"))
       ELSE UNCHANGED <<pc, ret, exc>>
    /\ UNCHANGED <<sizes, selected, fs, op, args>>

\* A poll fails with a driver error: until does not catch it.
WaitPollError(x) ==
    /\ pc = "polling"
    /\ log' = Append(log, Poll("error", NoneVal, x))
    /\ WaitLeaves(UntilRaises(x))
    /\ UNCHANGED <<sizes, selected, fs, op, args, clock>>

\* The caller waits for an element.
WaitClickableCall ==
    Idle /\ \E xpath \in XPaths, timeout \in 0..MaxTimeout : WaitCall(xpath, timeout)

NextWait ==
    \/ WaitClickableCall
    \/ \E e \in Elements : WaitPollFound(e)
    \/ \E kind \in {"absent", "unclickable"} : WaitPollNotYet(kind)
    \/ \E x \in DriverErrors : WaitPollError(x)
    \/ Return

SpecWait == Init /\ [][NextWait]_vars

\* C10: waitClickable returns the element when it becomes clickable before
\* the timeout elapses; when the timeout elapses first it returns None and
\* raises nothing; any other driver exception propagates to the caller.
C10_WaitOutcome ==
    (pc = "done" /\ op = "waitClickable")
    => LET last == log[Len(log)]
       IN /\ last.kind = "clickable"
               => (ret = last.element /\ exc = "" /\ clock <= args.timeout)
          /\ last.kind \in {"absent", "unclickable"}
               => (ret = NoneVal /\ exc = "" /\ clock > args.timeout)
          /\ last.kind = "error" => exc = last.name

\* A wait of two intervals has timed out after three polls and returned None.
C10_Witness ==
    /\ pc = "done"
    /\ op = "waitClickable"
    /\ args.timeout = 2
    /\ Len(log) = 3
    /\ clock = 3
    /\ ret = NoneVal
    /\ exc = ""

====
